---- MODULE Spec2Model ----
(***************************************************************************)
(* Stock and price synchronisation scripts seller.py (marketplace A) and   *)
(* market.py (marketplace B): catalogue pagination, reconciliation of the  *)
(* vendor feed with the known offer ids, chunked upload, and the two main  *)
(* functions with their error handling.                                    *)
(*                                                                         *)
(* Strings the code inspects character by character (quantities, prices)   *)
(* are sequences of one-character strings; offer ids / product codes are   *)
(* opaque identifiers, modelled as naturals.                               *)
(***************************************************************************)
EXTENDS Integers, Sequences, FiniteSets, TLC

VARIABLES
    entry,          \* the function that was invoked
    pc,             \* position of the single thread of control
    stack,          \* return positions of the callers
    in_try,         \* main is inside its try block
    outcome,        \* "running", "returned" or "raised" (exception escaped)
    exc,            \* class of the last exception raised, "" if none
    printed,        \* what main's except clauses printed
    watch_remnants, \* rows of the vendor feed as parsed by download_stock
    offer_ids,      \* the offer id list (one mutable list object)
    stocks,         \* result of create_stocks
    prices,         \* result of create_prices
    chunks,         \* list(divide(...)) not yet iterated
    page,           \* last_id / page token of the pagination loop
    product_list,   \* items accumulated by the pagination loop
    campaign,       \* account the calls are addressed to
    fileExists,     \* ./ostatki.xls exists on disk
    calls,          \* network calls issued so far, in order
    coroutines,     \* coroutine objects created and never awaited
    args,           \* arguments of a directly invoked pure function
    ret             \* value returned by the invoked function

ctrl == <<entry, pc, stack, in_try, outcome, exc, printed>>
data == <<watch_remnants, offer_ids, stocks, prices, chunks, page, product_list, campaign>>
world == <<fileExists, calls, coroutines>>
fn == <<args, ret>>
vars == <<ctrl, data, world, fn>>

-----------------------------------------------------------------------------
(* Bounds of the explored inputs *)

NumCodes == 2       \* product codes 1..NumCodes
MaxRows == 2        \* rows of a vendor feed
MaxOffers == 2      \* length of a known offer id list given to the reconciler
MaxLen == 4         \* length of a list given to divide
MaxN == 3           \* chunk size given to divide
MaxFetch == 3       \* page fetches of a pagination run on its own
MaxPageItems == 2   \* items of one catalogue page
MaxTotal == 5       \* largest "total" marketplace A reports
RunFetch == 2       \* page fetches of one pagination inside a whole run
RunPageItems == 2   \* items of one catalogue page inside a whole run

Codes == 1..NumCodes

Min(a, b) == IF a < b THEN a ELSE b

SeqsUpTo(S, n) == UNION {[1..k -> S] : k \in 0..n}

-----------------------------------------------------------------------------
(* Cells of the vendor feed *)

Digits == <<"0", "1", "2", "3", "4", "5", "6", "7", "8", "9">>

IsDigit(c) == \E d \in 1..10 : Digits[d] = c

DigitVal(c) == (CHOOSE d \in 1..10 : Digits[d] = c) - 1

\* quantity cells: the two sentinels, numeric strings, non-numeric strings
QtyStrings ==
    { <<">", "1", "0">>, <<"1">>, <<"0">>, <<"1", "2">>, <<"x">> }

\* price cells: "5'990.00 руб." and "150.00 руб." (currency suffix as " r.")
Price1 == <<"5", "'", "9", "9", "0", ".", "0", "0", " ", "r", ".">>
Price2 == <<"1", "5", "0", ".", "0", "0", " ", "r", ".">>
PriceStrings == {Price1, Price2}

Rows == [code : Codes, qty : QtyStrings, price : PriceStrings]

\* int(s) of Python for strings made of digits and other printable characters:
\* ok with the decimal value when s is a non-empty run of digits, ValueError
\* otherwise.
RECURSIVE DecimalValue(_, _)
DecimalValue(s, acc) ==
    IF s = <<>> THEN acc
    ELSE DecimalValue(Tail(s), acc * 10 + DigitVal(Head(s)))

int(s) ==
    IF s # <<>> /\ \A i \in 1..Len(s) : IsDigit(s[i])
    THEN [ok |-> TRUE, value |-> DecimalValue(s, 0)]
    ELSE [ok |-> FALSE, value |-> 0]

-----------------------------------------------------------------------------
(* Python list primitives *)

\* x in lst
In(x, lst) == \E i \in 1..Len(lst) : lst[i] = x

\* a remove that forgets to drop the element
Remove_keeps(lst, x) == lst

\* lst.remove(x): drops the first occurrence (x is known to be in lst)
Remove(lst, x) ==
    LET i == CHOOSE j \in 1..Len(lst) :
                 lst[j] = x /\ \A k \in 1..(j - 1) : lst[k] # x
    IN SubSeq(lst, 1, i - 1) \o SubSeq(lst, i + 1, Len(lst))

\* a slice that stops one element early
Slice_short(lst, i, j) == SubSeq(lst, i + 1, Min(j - 1, Len(lst)))

\* lst[i : j] for 0 <= i <= j
Slice(lst, i, j) == SubSeq(lst, i + 1, Min(j, Len(lst)))

\* a range that leaves out the start of a last, shorter step
Range0_whole(stop, step) == [k \in 1..(stop \div step) |-> (k - 1) * step]

\* range(0, stop, step) as the sequence of its values
Range0(stop, step) == [k \in 1..((stop + step - 1) \div step) |-> (k - 1) * step]

-----------------------------------------------------------------------------
(* seller.divide: list(divide(lst, n)) *)

divide(lst, n) ==
    LET r == Range0(Len(lst), n)
    IN [k \in 1..Len(r) |-> Slice(lst, r[k], r[k] + n)]

-----------------------------------------------------------------------------
(* seller.price_conversion: re.sub("[^0-9]", "", price.split(".")[0]) *)

\* price.split(".")[0]: the part before the first "."
SplitDot0(s) ==
    IF \E i \in 1..Len(s) : s[i] = "."
    THEN SubSeq(s, 1, (CHOOSE i \in 1..Len(s) :
                          s[i] = "." /\ \A k \in 1..(i - 1) : s[k] # ".") - 1)
    ELSE s

price_conversion(price) == SelectSeq(SplitDot0(price), IsDigit)

-----------------------------------------------------------------------------
(* create_stocks of seller.py and market.py *)

\* a bucketing without the "1" sentinel
Bucket_no_one(qty) ==
    IF qty = <<">", "1", "0">> THEN [ok |-> TRUE, value |-> 100] ELSE int(qty)

\* the bucketing of one quantity cell (seller.py 218-224, market.py 184-190)
Bucket(qty) ==
    IF qty = <<">", "1", "0">> THEN [ok |-> TRUE, value |-> 100]
    ELSE IF qty = <<"1">> THEN [ok |-> TRUE, value |-> 0]
    ELSE int(qty)

SellerStock(code, n) == [offer_id |-> code, stock |-> n]

UpdatedAt == "utcnow"

MarketStock(code, n, warehouse_id) ==
    [sku |-> code, warehouseId |-> warehouse_id, count |-> n,
     type |-> "FIT", updatedAt |-> UpdatedAt]

\* seller.create_stocks, first loop (from row i on).  The result carries the
\* offer id list as the loop left it, because the caller's list is mutated;
\* ok = FALSE is the ValueError of int().
RECURSIVE seller_stocks_loop(_, _, _, _)
seller_stocks_loop(rows, i, ids, acc) ==
    IF i > Len(rows) THEN [ok |-> TRUE, stocks |-> acc, offer_ids |-> ids]
    ELSE IF In(rows[i].code, ids)
         THEN LET b == Bucket(rows[i].qty)
              IN IF b.ok
                 THEN seller_stocks_loop(rows, i + 1, Remove(ids, rows[i].code),
                          Append(acc, SellerStock(rows[i].code, b.value)))
                 ELSE [ok |-> FALSE, stocks |-> acc, offer_ids |-> ids]
         ELSE seller_stocks_loop(rows, i + 1, ids, acc)

\* second loop: a zero entry for every id still in the list
seller_create_stocks(rows, ids) ==
    LET r == seller_stocks_loop(rows, 1, ids, <<>>)
    IN IF r.ok
       THEN [r EXCEPT !.stocks = r.stocks \o
                [k \in 1..Len(r.offer_ids) |-> SellerStock(r.offer_ids[k], 0)]]
       ELSE r

RECURSIVE market_stocks_loop(_, _, _, _, _)
market_stocks_loop(rows, i, ids, acc, warehouse_id) ==
    IF i > Len(rows) THEN [ok |-> TRUE, stocks |-> acc, offer_ids |-> ids]
    ELSE IF In(rows[i].code, ids)
         THEN LET b == Bucket(rows[i].qty)
              IN IF b.ok
                 THEN market_stocks_loop(rows, i + 1, Remove(ids, rows[i].code),
                          Append(acc, MarketStock(rows[i].code, b.value, warehouse_id)),
                          warehouse_id)
                 ELSE [ok |-> FALSE, stocks |-> acc, offer_ids |-> ids]
         ELSE market_stocks_loop(rows, i + 1, ids, acc, warehouse_id)

market_create_stocks(rows, ids, warehouse_id) ==
    LET r == market_stocks_loop(rows, 1, ids, <<>>, warehouse_id)
    IN IF r.ok
       THEN [r EXCEPT !.stocks = r.stocks \o
                [k \in 1..Len(r.offer_ids) |->
                    MarketStock(r.offer_ids[k], 0, warehouse_id)]]
       ELSE r

-----------------------------------------------------------------------------
(* create_prices of seller.py and market.py *)

SellerPrice(row) ==
    [auto_action_enabled |-> "UNKNOWN", currency_code |-> "RUB",
     offer_id |-> row.code, old_price |-> "0",
     price |-> price_conversion(row.price)]

seller_create_prices(rows, ids) ==
    LET m == SelectSeq(rows, LAMBDA w : In(w.code, ids))
    IN [k \in 1..Len(m) |-> SellerPrice(m[k])]

\* int(price_conversion(...)) raises ValueError when no digit is left
market_create_prices(rows, ids) ==
    LET m == SelectSeq(rows, LAMBDA w : In(w.code, ids))
        bad == \E k \in 1..Len(m) : ~int(price_conversion(m[k].price)).ok
    IN IF bad THEN [ok |-> FALSE, prices |-> <<>>]
       ELSE [ok |-> TRUE,
             prices |-> [k \in 1..Len(m) |->
                            [id |-> m[k].code,
                             value |-> int(price_conversion(m[k].price)).value,
                             currencyId |-> "RUR"]]]

-----------------------------------------------------------------------------
(* Control: return to the caller, raise to the nearest handler *)

Idle(e, p) ==
    /\ entry = e
    /\ pc = p
    /\ stack = <<>>
    /\ in_try = FALSE
    /\ outcome = "running"
    /\ exc = ""
    /\ printed = <<>>
    /\ watch_remnants = <<>>
    /\ offer_ids = <<>>
    /\ stocks = <<>>
    /\ prices = <<>>
    /\ chunks = <<>>
    /\ page = ""
    /\ product_list = <<>>
    /\ campaign = ""
    /\ fileExists = FALSE
    /\ calls = <<>>
    /\ coroutines = <<>>
    /\ ret = "none"

\* the invoked function returns v to whoever invoked it
Finish(v) ==
    /\ pc' = "done"
    /\ outcome' = "returned"
    /\ ret' = v
    /\ UNCHANGED <<entry, stack, in_try, exc, printed>>

\* the invoked function, or a callee, returns to its caller
Return(v) ==
    IF stack = <<>>
    THEN Finish(v)
    ELSE /\ pc' = Head(stack)
         /\ stack' = Tail(stack)
         /\ UNCHANGED <<entry, in_try, outcome, exc, printed, ret>>

NetErrors == {"ReadTimeout", "ConnectionError", "HTTPError"}

\* what the except clauses of main print (seller.py 379-384, market.py 354-359)
Message(cls) ==
    CASE cls = "ReadTimeout" -> "timeout"
      [] cls = "ConnectionError" -> "connection error"
      [] OTHER -> "ERROR_2"

\* an exception that is printed where it is raised, the loop carrying on
Raise_carry_on(cls) ==
    /\ exc' = cls
    /\ printed' = Append(printed, cls)
    /\ UNCHANGED <<entry, pc, stack, in_try, outcome, ret>>

\* an exception of class cls is raised: inside main's try block it is printed
\* and main returns; anywhere else it leaves the invoked function
Raise(cls) ==
    /\ exc' = cls
    /\ pc' = "done"
    /\ stack' = <<>>
    /\ IF in_try
       THEN outcome' = "returned" /\ printed' = Append(printed, Message(cls))
       ELSE outcome' = "raised" /\ printed' = printed
    /\ UNCHANGED <<entry, in_try, ret>>

Call(op, arg, ok, resp) ==
    [op |-> op, account |-> campaign, arg |-> arg, ok |-> ok, resp |-> resp]

\* page fetches of the pagination loop under way
Fetches ==
    Cardinality({i \in 1..Len(calls) :
                    calls[i].op = "get_product_list" /\ calls[i].account = campaign})

PagerEntries == {"seller.get_offer_ids", "market.get_offer_ids"}

\* Python None, as returned by dict.get for an absent key
None == "<None>"

\* chunk sizes of the upload loops
StockChunkA == 100
PriceChunkA == 900
PriceChunkAUpload == 1000
StockChunkB == 2000
PriceChunkB == 500

\* a catalogue one entry larger than the chunk of the upload the run makes,
\* served besides the small ones
BulkSizes ==
    CASE entry = "seller.upload_prices" -> {PriceChunkA + 1}
      [] entry = "market.upload_prices" -> {PriceChunkB + 1}
      [] entry \in {"seller.main", "seller.upload_stocks"} -> {StockChunkA + 1}
      [] entry = "market.main" /\ campaign = "FBS" -> {StockChunkB + 1}
      [] OTHER -> {}

\* a feed with a row for every entry of that catalogue, given to the price
\* upload functions
BulkFeedSizes ==
    IF entry \in {"seller.upload_prices", "market.upload_prices"}
    THEN BulkSizes ELSE {}

\* bounds of the catalogue the marketplace serves
FetchBound == IF entry \in PagerEntries THEN MaxFetch ELSE RunFetch
\* ids served so far in the pages after a bulk first page
SmallServed ==
    IF \E b \in BulkSizes : Len(product_list) >= b
    THEN Len(product_list) - (CHOOSE b \in BulkSizes : TRUE)
    ELSE Len(product_list)

\* sizes of one page, totals reported, end-of-catalogue tokens.  To the
\* pagination on its own the server serves pages of any small size and
\* reports any total.  Inside a whole run the catalogue is a bulk first page
\* or none, then at most RunPageItems ids over the pages, and the total
\* reported is the number of items served so far (the catalogue is
\* exhausted) or one more (it is not)
PageSizes ==
    IF entry \in PagerEntries THEN 0..MaxPageItems
    ELSE 0..(RunPageItems - SmallServed)
            \cup (IF product_list = <<>> THEN BulkSizes ELSE {})
Totals(k) ==
    IF entry \in PagerEntries THEN 0..MaxTotal
    ELSE {Len(product_list) + k, Len(product_list) + k + 1}
EndTokens == IF entry \in PagerEntries THEN {None, ""} ELSE {""}

\* the next k catalogue entries after the ones already served; the cursor
\* token names the position reached
NextIds(k) == [i \in 1..k |-> Len(product_list) + i]
Cursor(k) == ToString(Len(product_list) + k)


-----------------------------------------------------------------------------
(* seller.get_offer_ids: one iteration of the while loop, with its request *)

SellerItems(k) ==
    LET ids == NextIds(k) IN [i \in 1..k |-> [offer_id |-> ids[i]]]

\* a loop test that also stops once the total is exceeded
SellerLast_atLeast(total, all) == total <= Len(all)

\* if total == len(product_list): break
SellerLast(total, all) == total = Len(all)

SellerGetProductList ==
    /\ pc = "seller.get_offer_ids"
    /\ Fetches < FetchBound
    /\ \/ \E cls \in NetErrors :
            /\ calls' = Append(calls, Call("get_product_list", page, FALSE, cls))
            /\ Raise(cls)
            /\ UNCHANGED <<data, fileExists, coroutines, args>>
       \/ \E k \in PageSizes : \E total \in Totals(k) :
            LET some_prod == [items |-> SellerItems(k), total |-> total,
                              last_id |-> Cursor(k)]
                all == product_list \o some_prod.items
            IN /\ calls' = Append(calls, Call("get_product_list", page, TRUE, some_prod))
               /\ product_list' = all
               /\ page' = some_prod.last_id
               /\ IF SellerLast(some_prod.total, all)
                  THEN /\ offer_ids' = [i \in 1..Len(all) |-> all[i].offer_id]
                       /\ Return(offer_ids')
                  ELSE /\ UNCHANGED <<ctrl, offer_ids, ret>>
               /\ UNCHANGED <<watch_remnants, stocks, prices, chunks, campaign>>
               /\ UNCHANGED <<fileExists, coroutines, args>>

-----------------------------------------------------------------------------
(* market.get_offer_ids: one iteration of the while loop, with its request *)

MarketItems(k) ==
    LET ids == NextIds(k) IN [i \in 1..k |-> [shopSku |-> ids[i]]]

\* a test that takes only the empty string as the end
Falsy_emptyOnly(token) == token = ""

\* if not page: None and "" both end the loop
Falsy(token) == token = None \/ token = ""

MarketGetProductList ==
    /\ pc = "market.get_offer_ids"
    /\ Fetches < FetchBound
    /\ \/ \E cls \in NetErrors :
            /\ calls' = Append(calls, Call("get_product_list", page, FALSE, cls))
            /\ Raise(cls)
            /\ UNCHANGED <<data, fileExists, coroutines, args>>
       \/ \E k \in PageSizes :
          \E next \in EndTokens \cup {Cursor(k)} :
            LET some_prod == [offerMappingEntries |-> MarketItems(k),
                              nextPageToken |-> next]
                all == product_list \o some_prod.offerMappingEntries
            IN /\ calls' = Append(calls, Call("get_product_list", page, TRUE, some_prod))
               /\ product_list' = all
               /\ page' = some_prod.nextPageToken
               /\ IF Falsy(page')
                  THEN /\ offer_ids' = [i \in 1..Len(all) |-> all[i].shopSku]
                       /\ Return(offer_ids')
                  ELSE /\ UNCHANGED <<ctrl, offer_ids, ret>>
               /\ UNCHANGED <<watch_remnants, stocks, prices, chunks, campaign>>
               /\ UNCHANGED <<fileExists, coroutines, args>>

InitPagerA == Idle("seller.get_offer_ids", "seller.get_offer_ids") /\ args = <<>>
InitPagerB == Idle("market.get_offer_ids", "market.get_offer_ids") /\ args = <<>>

NextPagerA == SellerGetProductList
NextPagerB == MarketGetProductList

SpecPagerA == InitPagerA /\ [][NextPagerA]_vars
SpecPagerB == InitPagerB /\ [][NextPagerB]_vars

-----------------------------------------------------------------------------
(* The vendor feeds of a whole run *)

Row(c, q, p) == [code |-> c, qty |-> q, price |-> p]

\* empty feed; rows for ids 1 and 2 (a third known id has no row); two rows of
\* one code; a row whose quantity is no number; a code no catalogue lists first
ScenarioFeeds ==
    { <<>>,
      <<Row(1, <<">", "1", "0">>, Price1), Row(2, <<"1">>, Price2)>>,
      <<Row(1, <<"1", "2">>, Price1), Row(1, <<"0">>, Price2)>>,
      <<Row(2, <<"x">>, Price1)>>,
      <<Row(9, <<"0">>, Price2), Row(1, <<">", "1", "0">>, Price1)>> }

BulkFeed(n) == [i \in 1..n |-> Row(i, <<">", "1", "0">>, Price1)]

Feeds == ScenarioFeeds \cup {BulkFeed(n) : n \in BulkFeedSizes}

-----------------------------------------------------------------------------
(* seller.download_stock *)

\* session.get, raise_for_status, extractall: the archive is fetched and
\* ostatki.xls is written to the working directory
DownloadFetch ==
    /\ pc = "download_stock"
    /\ \/ \E cls \in NetErrors :
            /\ calls' = Append(calls, Call("get_archive", "", FALSE, cls))
            /\ Raise(cls)
            /\ UNCHANGED <<fileExists>>
       \/ /\ calls' = Append(calls, Call("get_archive", "", TRUE, ""))
          /\ fileExists' = TRUE
          /\ pc' = "download_stock.read_excel"
          /\ UNCHANGED <<entry, stack, in_try, outcome, exc, printed, ret>>
    /\ UNCHANGED <<data, coroutines, args>>

\* pd.read_excel(...).to_dict: yields the rows, or raises on a file it cannot
\* parse
DownloadReadExcel ==
    /\ pc = "download_stock.read_excel"
    /\ \/ /\ Raise("XLRDError")
          /\ UNCHANGED watch_remnants
       \/ \E feed \in Feeds :
            /\ watch_remnants' = feed
            /\ pc' = "download_stock.remove"
            /\ UNCHANGED <<entry, stack, in_try, outcome, exc, printed, ret>>
    /\ UNCHANGED <<offer_ids, stocks, prices, chunks, page, product_list, campaign>>
    /\ UNCHANGED <<world, args>>

\* os.remove("./ostatki.xls"); return watch_remnants
DownloadRemove ==
    /\ pc = "download_stock.remove"
    /\ fileExists' = FALSE
    /\ Return(watch_remnants)
    /\ UNCHANGED <<data, calls, coroutines, args>>

-----------------------------------------------------------------------------
(* Steps shared by the run functions *)

\* offer_ids = get_offer_ids(...): enter the pagination loop of target
CallGetOfferIds(from, to, target, account) ==
    /\ pc = from
    /\ pc' = target
    /\ stack' = <<to>> \o stack
    /\ page' = ""
    /\ product_list' = <<>>
    /\ campaign' = account
    /\ UNCHANGED <<entry, outcome, exc, printed, ret>>
    /\ UNCHANGED <<watch_remnants, offer_ids, stocks, prices, chunks, world, args>>

\* one iteration of "for some in list(divide(...)): update(some, ...)"
SendChunk(at, op) ==
    /\ pc = at
    /\ chunks # <<>>
    /\ \/ \E cls \in NetErrors :
            /\ calls' = Append(calls, Call(op, Head(chunks), FALSE, cls))
            /\ Raise(cls)
            /\ UNCHANGED chunks
       \/ /\ calls' = Append(calls, Call(op, Head(chunks), TRUE, ""))
          /\ chunks' = Tail(chunks)
          /\ UNCHANGED <<ctrl, ret>>
    /\ UNCHANGED <<watch_remnants, offer_ids, stocks, prices, page, product_list, campaign>>
    /\ UNCHANGED <<fileExists, coroutines, args>>

\* stocks = create_stocks(...) followed by list(divide(stocks, n)); r is the
\* outcome of create_stocks
BuildStocks(at, to, r, n) ==
    /\ pc = at
    /\ offer_ids' = r.offer_ids
    /\ IF r.ok
       THEN /\ stocks' = r.stocks
            /\ chunks' = divide(r.stocks, n)
            /\ pc' = to
            /\ UNCHANGED <<entry, stack, in_try, outcome, exc, printed, ret>>
       ELSE /\ Raise("ValueError")
            /\ UNCHANGED <<stocks, chunks>>
    /\ UNCHANGED <<watch_remnants, prices, page, product_list, campaign, world, args>>

\* prices = create_prices(...) followed by list(divide(prices, n))
BuildPrices(at, to, r, n) ==
    /\ pc = at
    /\ chunks = <<>>
    /\ IF r.ok
       THEN /\ prices' = r.prices
            /\ chunks' = divide(r.prices, n)
            /\ pc' = to
            /\ UNCHANGED <<entry, stack, in_try, outcome, exc, printed, ret>>
       ELSE /\ Raise("ValueError")
            /\ UNCHANGED <<prices, chunks>>
    /\ UNCHANGED <<watch_remnants, offer_ids, stocks, page, product_list, campaign>>
    /\ UNCHANGED <<world, args>>

\* the loop is over and the function returns v
ReturnAfterLoop(at, v) ==
    /\ pc = at
    /\ chunks = <<>>
    /\ Return(v)
    /\ UNCHANGED <<data, world, args>>

-----------------------------------------------------------------------------
(* seller.main *)

\* the try block is entered and get_offer_ids is called
SellerMainGetOfferIds ==
    /\ in_try' = TRUE
    /\ CallGetOfferIds("seller.main", "seller.main.download",
                       "seller.get_offer_ids", "seller")

SellerMainDownload ==
    /\ pc = "seller.main.download"
    /\ pc' = "download_stock"
    /\ stack' = <<"seller.main.create_stocks">>
    /\ UNCHANGED <<entry, in_try, outcome, exc, printed, data, world, fn>>

SellerMainCreateStocks ==
    BuildStocks("seller.main.create_stocks", "seller.main.update_stocks",
                seller_create_stocks(watch_remnants, offer_ids), StockChunkA)

SellerMainUpdateStocks == SendChunk("seller.main.update_stocks", "update_stocks")

\* the stock loop is over: create_prices gets the list create_stocks mutated
SellerMainCreatePrices ==
    BuildPrices("seller.main.update_stocks", "seller.main.update_price",
                [ok |-> TRUE, prices |-> seller_create_prices(watch_remnants, offer_ids)],
                PriceChunkA)

SellerMainUpdatePrice == SendChunk("seller.main.update_price", "update_price")

SellerMainReturn == ReturnAfterLoop("seller.main.update_price", None)

-----------------------------------------------------------------------------
(* seller.upload_stocks and seller.upload_prices, awaited to completion *)

\* the coroutine starts with its watch_remnants argument and calls
\* get_offer_ids
UploadStart(fname, target, account) ==
    /\ entry = fname /\ pc = fname
    /\ pc' = target
    /\ stack' = <<fname \o ".create">>
    /\ campaign' = account
    /\ watch_remnants' = args.feed
    /\ page' = ""
    /\ product_list' = <<>>
    /\ UNCHANGED <<entry, in_try, outcome, exc, printed, ret>>
    /\ UNCHANGED <<offer_ids, stocks, prices, chunks, world, args>>

SellerUploadStocksStart == UploadStart("seller.upload_stocks", "seller.get_offer_ids", "seller")

SellerUploadStocksCreate ==
    BuildStocks("seller.upload_stocks.create", "seller.upload_stocks.update",
                seller_create_stocks(watch_remnants, offer_ids), StockChunkA)

SellerUploadStocksUpdate == SendChunk("seller.upload_stocks.update", "update_stocks")

\* not_empty = the entries with a stock other than 0; return not_empty, stocks
SellerUploadStocksReturn ==
    ReturnAfterLoop("seller.upload_stocks.update",
                    <<SelectSeq(stocks, LAMBDA e : e.stock # 0), stocks>>)

SellerUploadPricesStart == UploadStart("seller.upload_prices", "seller.get_offer_ids", "seller")

SellerUploadPricesCreate ==
    BuildPrices("seller.upload_prices.create", "seller.upload_prices.update",
                [ok |-> TRUE, prices |-> seller_create_prices(watch_remnants, offer_ids)],
                PriceChunkAUpload)

SellerUploadPricesUpdate == SendChunk("seller.upload_prices.update", "update_price")

SellerUploadPricesReturn == ReturnAfterLoop("seller.upload_prices.update", prices)

-----------------------------------------------------------------------------
(* market.main *)

Warehouse(account) == IF account = "FBS" THEN "warehouse_fbs" ELSE "warehouse_dbs"

\* watch_remnants = download_stock(), before the try block
MarketMainDownload ==
    /\ pc = "market.main"
    /\ pc' = "download_stock"
    /\ stack' = <<"market.main.FBS">>
    /\ UNCHANGED <<entry, in_try, outcome, exc, printed, data, world, fn>>

\* the try block is entered (FBS) or continued (DBS): get_offer_ids
MarketMainGetOfferIds(account) ==
    /\ in_try' = TRUE
    /\ CallGetOfferIds("market.main." \o account,
                       "market.main.create_stocks." \o account,
                       "market.get_offer_ids", account)

MarketMainCreateStocks(account) ==
    BuildStocks("market.main.create_stocks." \o account,
                "market.main.update_stocks." \o account,
                market_create_stocks(watch_remnants, offer_ids, Warehouse(account)),
                StockChunkB)

MarketMainUpdateStocks(account) ==
    SendChunk("market.main.update_stocks." \o account, "update_stocks")

\* upload_prices(...) without await: a coroutine object is created and
\* dropped, its body does not run
MarketMainUploadPrices(account) ==
    /\ pc = "market.main.update_stocks." \o account
    /\ chunks = <<>>
    /\ coroutines' = Append(coroutines, [fn |-> "upload_prices", account |-> account])
    /\ IF account = "FBS"
       THEN /\ pc' = "market.main.DBS"
            /\ UNCHANGED <<entry, stack, in_try, outcome, exc, printed, ret>>
       ELSE Return(None)
    /\ UNCHANGED <<data, fileExists, calls, args>>

-----------------------------------------------------------------------------
(* market.upload_stocks and market.upload_prices, awaited to completion *)

MarketUploadStocksStart == UploadStart("market.upload_stocks", "market.get_offer_ids", "FBS")

MarketUploadStocksCreate ==
    BuildStocks("market.upload_stocks.create", "market.upload_stocks.update",
                market_create_stocks(watch_remnants, offer_ids, Warehouse("FBS")),
                StockChunkB)

MarketUploadStocksUpdate == SendChunk("market.upload_stocks.update", "update_stocks")

MarketUploadStocksReturn ==
    ReturnAfterLoop("market.upload_stocks.update",
                    <<SelectSeq(stocks, LAMBDA e : e.count # 0), stocks>>)

MarketUploadPricesStart == UploadStart("market.upload_prices", "market.get_offer_ids", "FBS")

MarketUploadPricesCreate ==
    BuildPrices("market.upload_prices.create", "market.upload_prices.update",
                market_create_prices(watch_remnants, offer_ids), PriceChunkB)

MarketUploadPricesUpdate == SendChunk("market.upload_prices.update", "update_price")

MarketUploadPricesReturn == ReturnAfterLoop("market.upload_prices.update", prices)

-----------------------------------------------------------------------------
(* The runs: either main, or one of the upload functions awaited *)

Mains == {"seller.main", "market.main"}
Uploads == {"seller.upload_stocks", "seller.upload_prices",
            "market.upload_stocks", "market.upload_prices"}

Init ==
    \E e \in Mains \cup Uploads :
        /\ Idle(e, e)
        /\ IF e \in Uploads THEN args \in [feed : Feeds] ELSE args = <<>>

Next ==
    \/ SellerGetProductList
    \/ MarketGetProductList
    \/ DownloadFetch
    \/ DownloadReadExcel
    \/ DownloadRemove
    \/ SellerMainGetOfferIds
    \/ SellerMainDownload
    \/ SellerMainCreateStocks
    \/ SellerMainUpdateStocks
    \/ SellerMainCreatePrices
    \/ SellerMainUpdatePrice
    \/ SellerMainReturn
    \/ SellerUploadStocksStart
    \/ SellerUploadStocksCreate
    \/ SellerUploadStocksUpdate
    \/ SellerUploadStocksReturn
    \/ SellerUploadPricesStart
    \/ SellerUploadPricesCreate
    \/ SellerUploadPricesUpdate
    \/ SellerUploadPricesReturn
    \/ MarketMainDownload
    \/ \E account \in {"FBS", "DBS"} :
          \/ MarketMainGetOfferIds(account)
          \/ MarketMainCreateStocks(account)
          \/ MarketMainUpdateStocks(account)
          \/ MarketMainUploadPrices(account)
    \/ MarketUploadStocksStart
    \/ MarketUploadStocksCreate
    \/ MarketUploadStocksUpdate
    \/ MarketUploadStocksReturn
    \/ MarketUploadPricesStart
    \/ MarketUploadPricesCreate
    \/ MarketUploadPricesUpdate
    \/ MarketUploadPricesReturn

Spec == Init /\ [][Next]_vars

-----------------------------------------------------------------------------
(* The stock runs of marketplace A: seller.main and seller.upload_stocks *)

InitSellerStocks ==
    \E e \in {"seller.main", "seller.upload_stocks"} :
        /\ Idle(e, e)
        /\ IF e \in Uploads THEN args \in [feed : Feeds] ELSE args = <<>>

NextSellerStocks ==
    \/ SellerGetProductList
    \/ DownloadFetch
    \/ DownloadReadExcel
    \/ DownloadRemove
    \/ SellerMainGetOfferIds
    \/ SellerMainDownload
    \/ SellerMainCreateStocks
    \/ SellerMainUpdateStocks
    \/ SellerMainCreatePrices
    \/ SellerMainUpdatePrice
    \/ SellerMainReturn
    \/ SellerUploadStocksStart
    \/ SellerUploadStocksCreate
    \/ SellerUploadStocksUpdate
    \/ SellerUploadStocksReturn

SpecSellerStocks == InitSellerStocks /\ [][NextSellerStocks]_vars

-----------------------------------------------------------------------------
(* market.main alone *)

InitMarketMain == Idle("market.main", "market.main") /\ args = <<>>

NextMarketMain ==
    \/ MarketGetProductList
    \/ DownloadFetch
    \/ DownloadReadExcel
    \/ DownloadRemove
    \/ MarketMainDownload
    \/ \E account \in {"FBS", "DBS"} :
          \/ MarketMainGetOfferIds(account)
          \/ MarketMainCreateStocks(account)
          \/ MarketMainUpdateStocks(account)
          \/ MarketMainUploadPrices(account)

SpecMarketMain == InitMarketMain /\ [][NextMarketMain]_vars

-----------------------------------------------------------------------------
(* Specification of divide alone: any list, any positive chunk size *)

Elems == {"a", "b"}

InitDivide ==
    /\ args \in [lst : SeqsUpTo(Elems, MaxLen), n : 1..MaxN]
    /\ Idle("divide", "call")

CallDivide ==
    /\ entry = "divide" /\ pc = "call"
    /\ Finish(divide(args.lst, args.n))
    /\ UNCHANGED <<data, world, args>>

NextDivide == CallDivide

SpecDivide == InitDivide /\ [][NextDivide]_vars

-----------------------------------------------------------------------------
(* Specification of create_stocks alone: any feed, any offer id list *)

StockRows == [code : Codes, qty : QtyStrings, price : {Price1}]

InitCreateStocks ==
    /\ \E e \in {"seller.create_stocks", "market.create_stocks"} : Idle(e, "call")
    /\ args \in [rows : SeqsUpTo(StockRows, MaxRows), ids : SeqsUpTo(Codes, MaxOffers)]

\* a ValueError leaves the function: no list is returned
CallSellerCreateStocks ==
    /\ entry = "seller.create_stocks" /\ pc = "call"
    /\ LET r == seller_create_stocks(args.rows, args.ids)
       IN /\ offer_ids' = r.offer_ids
          /\ IF r.ok
             THEN Finish(r.stocks)
             ELSE /\ pc' = "done" /\ outcome' = "raised" /\ exc' = "ValueError"
                  /\ UNCHANGED <<entry, stack, in_try, printed, ret>>
    /\ UNCHANGED <<watch_remnants, stocks, prices, chunks, page, product_list, campaign>>
    /\ UNCHANGED <<world, args>>

CallMarketCreateStocks ==
    /\ entry = "market.create_stocks" /\ pc = "call"
    /\ LET r == market_create_stocks(args.rows, args.ids, "warehouse")
       IN /\ offer_ids' = r.offer_ids
          /\ IF r.ok
             THEN Finish(r.stocks)
             ELSE /\ pc' = "done" /\ outcome' = "raised" /\ exc' = "ValueError"
                  /\ UNCHANGED <<entry, stack, in_try, printed, ret>>
    /\ UNCHANGED <<watch_remnants, stocks, prices, chunks, page, product_list, campaign>>
    /\ UNCHANGED <<world, args>>

NextCreateStocks == CallSellerCreateStocks \/ CallMarketCreateStocks

SpecCreateStocks == InitCreateStocks /\ [][NextCreateStocks]_vars

-----------------------------------------------------------------------------
(* Vocabulary of the properties *)

RECURSIVE Concat(_)
Concat(ss) == IF ss = <<>> THEN <<>> ELSE Head(ss) \o Concat(Tail(ss))

NoDup(lst) == \A i, j \in 1..Len(lst) : lst[i] = lst[j] => i = j

Count(lst, x) == Cardinality({i \in 1..Len(lst) : lst[i] = x})

Elements(lst) == {lst[i] : i \in 1..Len(lst)}

\* id and count of a stock entry of either marketplace
EntryId(e) == IF "sku" \in DOMAIN e THEN e.sku ELSE e.offer_id
EntryCount(e) == IF "sku" \in DOMAIN e THEN e.count ELSE e.stock

\* the first row of the feed that carries code c
FirstRow(rows, c) ==
    CHOOSE i \in 1..Len(rows) :
        rows[i].code = c /\ \A k \in 1..(i - 1) : rows[k].code # c

\* a quantity cell as the specification reads it, positional decimal notation
DecimalDigits == {"0", "1", "2", "3", "4", "5", "6", "7", "8", "9"}
Numeric(q) == q # <<>> /\ \A i \in 1..Len(q) : q[i] \in DecimalDigits
RECURSIVE Pow10(_)
Pow10(k) == IF k = 0 THEN 1 ELSE 10 * Pow10(k - 1)
DigitOf(c) == CASE c = "0" -> 0 [] c = "1" -> 1 [] c = "2" -> 2 [] c = "3" -> 3
                [] c = "4" -> 4 [] c = "5" -> 5 [] c = "6" -> 6 [] c = "7" -> 7
                [] c = "8" -> 8 [] c = "9" -> 9
RECURSIVE PlaceSum(_, _)
PlaceSum(q, i) ==
    IF i > Len(q) THEN 0 ELSE DigitOf(q[i]) * Pow10(Len(q) - i) + PlaceSum(q, i + 1)
Sentinel(q) == q = <<">", "1", "0">> \/ q = <<"1">>
Bucketable(q) == Sentinel(q) \/ Numeric(q)
Expected(q) ==
    IF q = <<">", "1", "0">> THEN 100 ELSE IF q = <<"1">> THEN 0 ELSE PlaceSum(q, 1)

CreateStocksDone ==
    entry \in {"seller.create_stocks", "market.create_stocks"} /\ pc = "done"

-----------------------------------------------------------------------------
(* C5 *)

\* C5: divide(L, n) yields chunks whose concatenation is L; every chunk but
\* the last has n elements, the last has len(L) mod n (n when that is 0), and
\* an empty L yields no chunk.
C5_DivideChunks ==
    (entry = "divide" /\ outcome = "returned") =>
        LET L == args.lst
            n == args.n
        IN /\ Concat(ret) = L
           /\ \A k \in 1..(Len(ret) - 1) : Len(ret[k]) = n
           /\ ret # <<>> =>
                Len(ret[Len(ret)]) = (IF Len(L) % n = 0 THEN n ELSE Len(L) % n)
           /\ L = <<>> => ret = <<>>
           /\ L # <<>> => ret # <<>>

C5_Witness ==
    /\ entry = "divide" /\ outcome = "returned"
    /\ Len(args.lst) = 4 /\ args.n = 3 /\ Len(ret) = 2 /\ Len(ret[2]) = 1

-----------------------------------------------------------------------------
(* C1 *)

\* C1: for a duplicate-free known list, the list create_stocks returns holds
\* every known id exactly once, with the bucketed count of the first vendor
\* row of that code, or 0 when no row has it, and holds no other id; it is
\* returned whenever those first rows can be bucketed.
C1_ReconciliationComplete ==
    (CreateStocksDone /\ NoDup(args.ids)) =>
        LET rows == args.rows
            known == Elements(args.ids)
            fed(c) == \E i \in 1..Len(rows) : rows[i].code = c
        IN IF \A c \in known : fed(c) => Bucketable(rows[FirstRow(rows, c)].qty)
           THEN /\ outcome = "returned"
                /\ \A k \in 1..Len(ret) : EntryId(ret[k]) \in known
                /\ \A c \in known :
                     /\ Cardinality({k \in 1..Len(ret) : EntryId(ret[k]) = c}) = 1
                     /\ \A k \in 1..Len(ret) : EntryId(ret[k]) = c =>
                          EntryCount(ret[k]) =
                             (IF fed(c) THEN Expected(rows[FirstRow(rows, c)].qty)
                              ELSE 0)
           ELSE outcome = "raised"

\* two rows of one known code with different quantities, another known id
\* without a row
C1_Witness ==
    /\ CreateStocksDone /\ outcome = "returned" /\ NoDup(args.ids)
    /\ Len(args.ids) = 2 /\ Len(args.rows) = 2
    /\ args.rows[1].code = args.rows[2].code
    /\ args.rows[1].qty = <<">", "1", "0">> /\ args.rows[2].qty = <<"0">>
    /\ In(args.rows[1].code, args.ids)

-----------------------------------------------------------------------------
(* C10 *)

\* row i is consumed: its code is still in the working list when the loop
\* reaches it (earlier rows of that code have not used up its occurrences)
Consumed(rows, ids, i) ==
    Cardinality({j \in 1..(i - 1) : rows[j].code = rows[i].code})
        < Count(ids, rows[i].code)

ConsumedRows(rows, ids) ==
    SelectSeq([i \in 1..Len(rows) |-> i], LAMBDA i : Consumed(rows, ids, i))

\* C10 as stated: every row whose code is a known offer id gets its bucketed
\* count, and any such row with a non-numeric, non-sentinel quantity makes
\* create_stocks fail.
C10_AsStated ==
    CreateStocksDone =>
        LET rows == args.rows
            known(i) == In(rows[i].code, args.ids)
        IN /\ (\E i \in 1..Len(rows) : known(i) /\ ~Bucketable(rows[i].qty))
                => outcome = "raised"
           /\ outcome = "returned" =>
                \A i \in 1..Len(rows) : known(i) =>
                    \E k \in 1..Len(ret) :
                        /\ EntryId(ret[k]) = rows[i].code
                        /\ EntryCount(ret[k]) = Expected(rows[i].qty)

\* C10 amended: the rows that are consumed get their bucketed counts, in row
\* order at the head of the result; create_stocks fails exactly when a
\* consumed row has a non-numeric, non-sentinel quantity; rows repeating a
\* used-up code are skipped unparsed.
C10_Bucketing ==
    CreateStocksDone =>
        LET rows == args.rows
            cons == ConsumedRows(rows, args.ids)
        IN IF \E k \in 1..Len(cons) : ~Bucketable(rows[cons[k]].qty)
           THEN outcome = "raised" /\ exc = "ValueError" /\ ret = "none"
           ELSE /\ outcome = "returned"
                /\ Len(ret) >= Len(cons)
                /\ \A k \in 1..Len(cons) :
                     /\ EntryId(ret[k]) = rows[cons[k]].code
                     /\ EntryCount(ret[k]) = Expected(rows[cons[k]].qty)

\* a consumed "1" row followed by a skipped non-numeric row of the same code
C10_Witness ==
    /\ CreateStocksDone /\ outcome = "returned"
    /\ Len(args.rows) = 2 /\ args.ids = <<args.rows[1].code>>
    /\ args.rows[1].qty = <<"1">>
    /\ args.rows[2].code = args.rows[1].code /\ args.rows[2].qty = <<"x">>
    /\ EntryCount(ret[1]) = 0

-----------------------------------------------------------------------------
(* C6, C7 *)

\* the page fetches among the calls, in order
FetchCalls == SelectSeq(calls, LAMBDA c : c.op = "get_product_list")

\* entries of the pages 1..i of a run of successful fetches
RECURSIVE PagesUpTo(_, _, _)
PagesUpTo(f, i, field) ==
    IF i = 0 THEN <<>> ELSE PagesUpTo(f, i - 1, field) \o f[i].resp[field]

\* C6: seller.get_offer_ids passes "" and then the last_id of the previous
\* response, stops right after the first response whose total equals the
\* number of items accumulated so far, fetches nothing after it, and returns
\* the offer ids of all fetched items in fetch order.
C6_CountPagination ==
    entry = "seller.get_offer_ids" =>
        LET f == FetchCalls
            acc(i) == Len(PagesUpTo(f, i, "items"))
            last(i) == f[i].ok /\ f[i].resp.total = acc(i)
        IN /\ \A i \in 1..Len(f) :
                /\ f[i].arg = (IF i = 1 THEN "" ELSE f[i - 1].resp.last_id)
                /\ i < Len(f) => f[i].ok /\ ~last(i)
           /\ outcome = "returned" <=> (f # <<>> /\ last(Len(f)))
           /\ outcome = "returned" =>
                /\ pc = "done"
                /\ ret = [k \in 1..acc(Len(f)) |->
                             PagesUpTo(f, Len(f), "items")[k].offer_id]

\* total 5 served as pages of 2, 2 and 1 items: returned after 3 fetches
C6_Witness ==
    /\ entry = "seller.get_offer_ids" /\ outcome = "returned"
    /\ Len(calls) = 3 /\ ret = <<1, 2, 3, 4, 5>>
    /\ \A i \in 1..3 : calls[i].resp.total = 5
    /\ Len(calls[1].resp.items) = 2 /\ Len(calls[2].resp.items) = 2
    /\ calls[2].arg = "2" /\ calls[3].arg = "4"

\* C7: market.get_offer_ids passes "" and then the nextPageToken of the
\* previous response, stops right after the first response whose token is
\* empty or absent, fetches nothing after it, and returns the shopSku of every
\* entry of every fetched page, the last included, in fetch order.
C7_TokenPagination ==
    entry = "market.get_offer_ids" =>
        LET f == FetchCalls
            last(i) == f[i].ok /\ f[i].resp.nextPageToken \in {"", None}
        IN /\ \A i \in 1..Len(f) :
                /\ f[i].arg = (IF i = 1 THEN "" ELSE f[i - 1].resp.nextPageToken)
                /\ i < Len(f) => f[i].ok /\ ~last(i)
           /\ outcome = "returned" <=> (f # <<>> /\ last(Len(f)))
           /\ outcome = "returned" =>
                /\ pc = "done"
                /\ LET all == PagesUpTo(f, Len(f), "offerMappingEntries")
                   IN ret = [k \in 1..Len(all) |-> all[k].shopSku]

\* three pages, the third with an absent token and one entry
C7_Witness ==
    /\ entry = "market.get_offer_ids" /\ outcome = "returned"
    /\ Len(calls) = 3 /\ calls[3].resp.nextPageToken = None
    /\ calls[2].arg = "2" /\ calls[3].arg = "3"
    /\ ret = <<1, 2, 3, 4>>

-----------------------------------------------------------------------------
(* Vocabulary of the run properties *)

\* the payloads of the successful calls of op addressed to account, in order
Sent(op, account) ==
    LET c == SelectSeq(calls, LAMBDA x : x.op = op /\ x.account = account /\ x.ok)
    IN Concat([k \in 1..Len(c) |-> c[k].arg])

\* the entries of the pages fetched for account, in order
Fetched(account, field) ==
    LET f == SelectSeq(calls, LAMBDA x :
                 x.op = "get_product_list" /\ x.account = account /\ x.ok)
    IN PagesUpTo(f, Len(f), field)

FedCodes == {watch_remnants[i].code : i \in 1..Len(watch_remnants)}

\* a run of main that ended without any call or step failing
CleanRun(e) == entry = e /\ outcome = "returned" /\ exc = ""

-----------------------------------------------------------------------------
(* C2 *)

\* C2: a seller.main run without failure uploads price updates for exactly
\* the fetched offer ids that have a row in the vendor feed.
C2_AsStated ==
    CleanRun("seller.main") =>
        LET fetched == {x.offer_id : x \in Elements(Fetched("seller", "items"))}
            priced == {x.offer_id : x \in Elements(Sent("update_price", "seller"))}
        IN priced = fetched \cap FedCodes

-----------------------------------------------------------------------------
(* C3 *)

\* C3: in a market.main run without failure, update_price is called for each
\* campaign with the price updates of every vendor row whose code is a known
\* offer id of that campaign.
C3_AsStated ==
    CleanRun("market.main") =>
        \A account \in {"FBS", "DBS"} :
            LET sku == Fetched(account, "offerMappingEntries")
                known == [k \in 1..Len(sku) |-> sku[k].shopSku]
            IN Sent("update_price", account)
                   = market_create_prices(watch_remnants, known).prices

-----------------------------------------------------------------------------
(* C4 *)

\* the chunk size the specification fixes for each endpoint
ChunkLimit(e, op) ==
    CASE e \in {"seller.main", "seller.upload_stocks", "seller.upload_prices"} ->
            (IF op = "update_stocks" THEN 100 ELSE 900)
      [] OTHER -> (IF op = "update_stocks" THEN 2000 ELSE 500)

\* C4: no bulk-update call carries more entries than the chunk size of its
\* endpoint, on any path that uploads.
C4_AsStated ==
    \A i \in 1..Len(calls) :
        calls[i].op \in {"update_stocks", "update_price"} =>
            Len(calls[i].arg) <= ChunkLimit(entry, calls[i].op)

-----------------------------------------------------------------------------
(* C8 *)

\* C8: whatever fails in a run of main after the credentials are loaded is
\* caught and printed by main, which returns; the failed call is the last one.
C8_AsStated ==
    (entry \in Mains /\ exc # "") =>
        /\ outcome = "returned"
        /\ pc = "done"
        /\ printed = <<Message(exc)>>
        /\ \A i \in 1..Len(calls) : ~calls[i].ok => i = Len(calls)

-----------------------------------------------------------------------------
(* C9 *)

InDownloadStock ==
    pc \in {"download_stock", "download_stock.read_excel", "download_stock.remove"}

\* C9: once download_stock has been left, by return or by exception,
\* ostatki.xls does not exist.
C9_AsStated == ~InDownloadStock => ~fileExists

-----------------------------------------------------------------------------
(* C11 *)

\* a call or a computation inside the try block of market.main has failed
TryFailed == entry = "market.main" /\ in_try /\ exc # ""

\* C11: in market.main, once anything inside the try block has failed, the
\* run is over and the call log never grows again: the failed call is the
\* last one of the log, the chunks not yet sent stay unsent, and a failure of
\* the FBS sub-run leaves the log without any DBS call.
C11_NoCallAfterFailure ==
    /\ [](TryFailed =>
            /\ pc = "done"
            /\ outcome = "returned"
            /\ \A i \in 1..Len(calls) : ~calls[i].ok => i = Len(calls)
            /\ \A i, j \in 1..Len(calls) :
                   (calls[i].account = "FBS" /\ ~calls[i].ok)
                       => calls[j].account # "DBS")
    /\ [][TryFailed => (calls' = calls /\ chunks' = chunks)]_vars

\* the first of the two stock chunks of the FBS sub-run has failed: the
\* second is still to be sent, and the DBS sub-run has not begun
C11_Witness ==
    /\ TryFailed
    /\ pc = "done"
    /\ Len(chunks) = 2
    /\ Len(calls) > 0
    /\ LET last == calls[Len(calls)] IN
          /\ last.op = "update_stocks"
          /\ last.account = "FBS"
          /\ ~last.ok
          /\ last.arg = Head(chunks)
    /\ \A i \in 1..Len(calls) : calls[i].account # "DBS"

-----------------------------------------------------------------------------
(* C12 *)

\* the stock upload of marketplace A has run to its end: seller.main has left
\* its stock loop, or the run has returned without any failure
StockUploadComplete ==
    /\ entry \in {"seller.main", "seller.upload_stocks"}
    /\ \/ pc = "seller.main.update_price"
       \/ CleanRun(entry)

StockCalls == SelectSeq(calls, LAMBDA c : c.op = "update_stocks")

\* C12: when a stock upload of marketplace A completes without a failed call,
\* update_stocks has been called once per chunk of 100, in order, and the
\* payloads concatenated in call order are the whole list create_stocks
\* returned for the fetched ids and the feed, zero-count entries included;
\* the non-empty subset upload_stocks returns beside it is computed from that
\* list and leaves it as it was sent.
C12_StockUploadWhole ==
    StockUploadComplete =>
        LET fetched == Fetched("seller", "items")
            ids == [k \in 1..Len(fetched) |-> fetched[k].offer_id]
            full == seller_create_stocks(watch_remnants, ids).stocks
            sent == Sent("update_stocks", "seller")
        IN /\ stocks = full
           /\ Len(StockCalls) = (Len(full) + StockChunkA - 1) \div StockChunkA
           /\ \A k \in 1..Len(StockCalls) :
                 /\ StockCalls[k].ok
                 /\ StockCalls[k].arg =
                        SubSeq(full, StockChunkA * (k - 1) + 1,
                               Min(StockChunkA * k, Len(full)))
           /\ sent = full
           /\ \A i \in 1..Len(ids) : \E j \in 1..Len(sent) :
                 sent[j].offer_id = ids[i]
           /\ (entry = "seller.upload_stocks" /\ pc = "done") =>
                 ret = <<SelectSeq(full, LAMBDA e : e.stock # 0), full>>

\* upload_stocks has returned after sending a catalogue of 101 ids as a chunk
\* of 100 and a chunk of 1, with counted and zero-count entries among them
C12_Witness ==
    /\ CleanRun("seller.upload_stocks")
    /\ pc = "done"
    /\ Len(stocks) = StockChunkA + 1
    /\ Len(StockCalls) = 2
    /\ Len(StockCalls[1].arg) = StockChunkA
    /\ Len(StockCalls[2].arg) = 1
    /\ \E i, j \in 1..Len(stocks) : stocks[i].stock = 0 /\ stocks[j].stock # 0
    /\ Len(ret[1]) < Len(ret[2])

====
